---- MODULE Spec2Model ----
(***************************************************************************)
(* Certificate issuance workflow of cert_platform/api: the Payment,        *)
(* Certificate and CertificateDeliveryLog tables, the request handlers of  *)
(* views.py that write them, and the deferred delivery timer.              *)
(***************************************************************************)
EXTENDS Integers, Sequences, FiniteSets, TLC

VARIABLES payments, certificates, delivery_logs, timers, last, requests,
          assessment, attempts, PHONEPE_TOKEN_CACHE, now

vars == <<payments, certificates, delivery_logs, timers, last, requests,
          assessment, attempts, PHONEPE_TOKEN_CACHE, now>>

\* the tables of the assessment grader
grader == <<assessment, attempts>>

\* the token cache of the payment gateway and the clock it is read against
gateway == <<PHONEPE_TOKEN_CACHE, now>>

(* ------------------------------ bounds -------------------------------- *)

\* rows the Certificate table may hold before creating handlers are cut off
MaxCerts == 2
\* delivery timers that may be started in one run
MaxTimers == 1
\* issue_certificate requests that may succeed for one payment
MaxIssues == 3

(* --------------------------- identifiers ------------------------------ *)

\* strings are sequences of one-character strings
NoId == <<>>

LowerChars == <<"a", "b", "c", "e", "r", "t">>
UpperChars == <<"A", "B", "C", "E", "R", "T">>

\* str.upper() on one character
UpperChar(c) ==
    IF \E i \in DOMAIN LowerChars : LowerChars[i] = c
    THEN UpperChars[CHOOSE i \in DOMAIN LowerChars : LowerChars[i] = c]
    ELSE c

\* str.upper()
Upper(s) == [i \in DOMAIN s |-> UpperChar(s[i])]

RECURSIVE LStrip(_)
LStrip(s) == IF s # <<>> /\ Head(s) = " " THEN LStrip(Tail(s)) ELSE s

RECURSIVE RStrip(_)
RStrip(s) ==
    IF s # <<>> /\ s[Len(s)] = " " THEN RStrip(SubSeq(s, 1, Len(s) - 1)) ELSE s

\* str.strip()
Strip(s) == RStrip(LStrip(s))

\* NormalizeId without the upper()
NormalizeId_no_upper(desired_id) == IF desired_id = NoId THEN NoId ELSE Strip(desired_id)

\* normalized_id = desired_id.strip().upper() if desired_id else None
\* (None and the empty string are both falsy and both written NoId)
NormalizeId(desired_id) == IF desired_id = NoId THEN NoId ELSE Upper(Strip(desired_id))

\* the __iexact lookup: equality up to letter case
IExact(a, b) == Upper(a) = Upper(b)

CertPrefix == <<"C", "E", "R", "T", "-">>

\* uppercase hex digits uuid4().hex[:10].upper() is drawn from (a sample)
HexDigits == {"A", "1"}

\* the values _make_certificate_id() can return
_make_certificate_id == {CertPrefix \o <<h>> : h \in HexDigits}

\* certificateId overrides a client sends to render_basic_certificate
DesiredIds ==
    { NoId,
      <<" ">>,
      <<"c", "e", "r", "t", "-", "a">>,
      <<" ", "C", "e", "r", "t", "-", "b", " ">>,
      <<"C", "E", "R", "T", "-", "B">> }

(* ----------------------------- payments ------------------------------- *)

TxnIds == {"TXN-1", "TXN-2"}

NoPayment == [exists |-> FALSE]

\* PLAN_RULES[plan]["requires_project"]
RequiresProject(plan) == plan \in {"industrial", "mastery"}

Plans == {"basic", "industrial", "mastery"}

BasicPayload ==
    [planType |-> "basic", name |-> "Asha", email |-> "asha@x", orientation |-> "horizontal",
     courseSlug |-> "python", declarationAccepted |-> TRUE, projectLink |-> ""]

IndustrialPayload ==
    [planType |-> "industrial", name |-> "Ben", email |-> "ben@x", orientation |-> "vertical",
     courseSlug |-> "none", declarationAccepted |-> TRUE, projectLink |-> "http://p"]

\* checkout_plan requests: the transaction id the clock gives and the body
CheckoutRequests ==
    { <<"TXN-1", BasicPayload>>,
      <<"TXN-2", IndustrialPayload>>,
      <<"TXN-2", [IndustrialPayload EXCEPT !.projectLink = ""]>>,
      <<"TXN-1", [BasicPayload EXCEPT !.orientation = "diagonal"]>>,
      <<"TXN-1", [BasicPayload EXCEPT !.declarationAccepted = FALSE]>>,
      <<"TXN-2", [BasicPayload EXCEPT !.planType = "gold"]>> }

\* projectDescription values sent to fulfillment_handler: empty, and one of
\* at least 20 characters
ProjectDescription == "a description of twenty chars"
ProjectDescriptions == {"", ProjectDescription}

\* len(project_description) < 20
IsShort(d) == d = ""

\* "code" values of a gateway callback
CallbackCodes == {"PAYMENT_SUCCESS", "PAYMENT_ERROR"}

\* metadata["basicCertificate"] before the first render
NoBasicCertificate == [courseTitle |-> "", awardDate |-> "", qrPayload |-> NoId]

\* payment.course.title if payment.course else "Certified Track"
CourseTitle(course) == IF course = "none" THEN "Certified Track" ELSE "Python Programming"

\* timezone.now().date().isoformat()
Today == "2026-01-01"

\* _parse_date(value).isoformat(): "" when strptime raises ValueError
ParseDate(value) ==
    CASE value = "2025-03-09" -> "2025-03-09"
      [] value = "2025-3-9" -> "2025-03-09"
      [] OTHER -> ""

\* str.strip() on the free-text overrides
StripText(value) == IF value \in {" ", ""} THEN "" ELSE value

\* _set_meta_field(meta, key, value) for the text fields: the stored value
\* changes only to a non-empty stripped value that differs from it
SetMetaText(old, value) == IF StripText(value) = "" THEN old ELSE StripText(value)

\* _set_meta_field(meta, "qrPayload", value)
SetMetaQr(old, value) == IF Strip(value) = NoId THEN old ELSE Strip(value)

NoOverrides ==
    [certificateId |-> NoId, studentName |-> "", courseTitle |-> "", awardDate |-> "",
     qrPayload |-> NoId]

\* "overrides" objects sent to render_basic_certificate
RenderOverrides == {[NoOverrides EXCEPT !.certificateId = d] : d \in DesiredIds}

\* "overrides" objects that also name the student, the course, the award
\* date (one well formed, one not) and the QR payload
FullOverrides ==
    [certificateId : {NoId, <<"c", "e", "r", "t", "-", "a">>},
     studentName   : {"", "Zed"},
     courseTitle   : {"", "Data Science"},
     awardDate     : {"", "2025-03-09", "09/03/2025"},
     qrPayload     : {NoId, <<"q", "r">>}]

(* --------------------------- responses -------------------------------- *)

\* the last response: the handler, the transaction it named, the error
\* ("" when none), the certificate row it returned (0 when none) and
\* whether the request inserted that row
Response(op, txn, error, cert, created) ==
    [op |-> op, txn |-> txn, error |-> error, cert |-> cert, created |-> created]

NoResponse == Response("none", "none", "", 0, FALSE)

(* ------------------------------ tables -------------------------------- *)

\* Certificate.objects.filter(certificate_id__iexact=cid).exists()
IdInUse(certs, cid) == \E k \in DOMAIN certs : IExact(certs[k].certificate_id, cid)

\* the unique=True constraint of Certificate.certificate_id
UniqueViolation(certs, cid) == \E k \in DOMAIN certs : certs[k].certificate_id = cid

\* payment.certificates.filter(plan_type=payment.plan_type)
CertsOf(certs, txn, plan) ==
    {k \in DOMAIN certs : certs[k].payment = txn /\ certs[k].plan_type = plan}

Min(S) == CHOOSE x \in S : \A y \in S : x <= y

\* .first(): the row of lowest primary key, 0 when there is none
First(S) == IF S = {} THEN 0 ELSE Min(S)

\* the row Certificate.objects.create(...) stores for a payment
NewCertificate(txn, p, cid, how) ==
    [certificate_id |-> cid, email |-> p.email, plan_type |-> p.plan_type,
     course |-> p.course, orientation |-> p.certificate_orientation,
     status |-> "issued", payment |-> txn,
     \* history: the stored payment status the creating request left, and
     \* the routine that created the row
     created_with_status |-> p.status, created_by |-> how]

\* CertificateCreate on a column without the unique constraint
CertificateCreate_unchecked(certs, row) ==
    [error |-> "", certs |-> Append(certs, row), cert |-> Len(certs) + 1]

\* Certificate.objects.create(...): the INSERT fails on a duplicate
\* certificate_id
CertificateCreate(certs, row) ==
    IF UniqueViolation(certs, row.certificate_id)
    THEN [error |-> "IntegrityError", certs |-> certs, cert |-> 0]
    ELSE [error |-> "", certs |-> Append(certs, row), cert |-> Len(certs) + 1]

\* _ensure_certificate without the lookup of the payment's certificate
_ensure_certificate_no_lookup(certs, txn, p, desired_id) ==
    LET normalized_id == NormalizeId(desired_id)
        first_ids == IF normalized_id # NoId THEN {normalized_id} ELSE _make_certificate_id
        certificate_ids ==
            UNION {IF IdInUse(certs, c) THEN _make_certificate_id ELSE {c} : c \in first_ids}
    IN  {CertificateCreate(certs, NewCertificate(txn, p, c, "ensure")) : c \in certificate_ids}

\* _ensure_certificate renaming without the check for another holder of the ID
_ensure_certificate_no_conflict_check(certs, txn, p, desired_id) ==
    LET certificate == First(CertsOf(certs, txn, p.plan_type))
        normalized_id == NormalizeId(desired_id)
    IN  IF certificate # 0
        THEN IF normalized_id # NoId /\ certs[certificate].certificate_id # normalized_id
             THEN {[error |-> "",
                    certs |-> [certs EXCEPT ![certificate].certificate_id = normalized_id],
                    cert |-> certificate]}
             ELSE {[error |-> "", certs |-> certs, cert |-> certificate]}
        ELSE _ensure_certificate_no_lookup(certs, txn, p, desired_id)

\* _ensure_certificate storing the requested ID on a new row, the old row kept
_ensure_certificate_rename_by_insert(certs, txn, p, desired_id) ==
    LET certificate == First(CertsOf(certs, txn, p.plan_type))
        normalized_id == NormalizeId(desired_id)
    IN  IF certificate # 0 /\ normalized_id # NoId
           /\ certs[certificate].certificate_id # normalized_id
        THEN IF \E k \in DOMAIN certs \ {certificate} :
                    IExact(certs[k].certificate_id, normalized_id)
             THEN {[error |-> "ValueError", certs |-> certs, cert |-> 0]}
             ELSE {[error |-> "", cert |-> Len(certs) + 1,
                    certs |-> Append(certs, [certs[certificate] EXCEPT
                                                !.certificate_id = normalized_id])]}
        ELSE _ensure_certificate_no_conflict_check(certs, txn, p, desired_id)

\* _ensure_certificate looking only for a certificate that is still issued
_ensure_certificate_issued_only(certs, txn, p, desired_id) ==
    LET certificate == First({k \in CertsOf(certs, txn, p.plan_type) :
                                 certs[k].status = "issued"})
        normalized_id == NormalizeId(desired_id)
    IN  IF certificate # 0
        THEN IF normalized_id # NoId /\ certs[certificate].certificate_id # normalized_id
             THEN IF \E k \in DOMAIN certs \ {certificate} :
                          IExact(certs[k].certificate_id, normalized_id)
                  THEN {[error |-> "ValueError", certs |-> certs, cert |-> 0]}
                  ELSE {[error |-> "",
                         certs |-> [certs EXCEPT ![certificate].certificate_id = normalized_id],
                         cert |-> certificate]}
             ELSE {[error |-> "", certs |-> certs, cert |-> certificate]}
        ELSE _ensure_certificate_no_lookup(certs, txn, p, desired_id)

\* _ensure_certificate(payment, desired_id): the outcomes the call can have,
\* one for each value _make_certificate_id() may return where it is called
_ensure_certificate(certs, txn, p, desired_id) ==
    LET certificate == First(CertsOf(certs, txn, p.plan_type))
        normalized_id == NormalizeId(desired_id)
    IN  IF certificate # 0
        THEN IF normalized_id # NoId /\ certs[certificate].certificate_id # normalized_id
             THEN IF \E k \in DOMAIN certs \ {certificate} :
                          IExact(certs[k].certificate_id, normalized_id)
                  THEN {[error |-> "ValueError", certs |-> certs, cert |-> 0]}
                  ELSE {[error |-> "",
                         certs |-> [certs EXCEPT ![certificate].certificate_id = normalized_id],
                         cert |-> certificate]}
             ELSE {[error |-> "", certs |-> certs, cert |-> certificate]}
        ELSE LET first_ids == IF normalized_id # NoId THEN {normalized_id}
                              ELSE _make_certificate_id
                 certificate_ids ==
                     UNION {IF IdInUse(certs, c) THEN _make_certificate_id ELSE {c} :
                            c \in first_ids}
             IN  {CertificateCreate(certs, NewCertificate(txn, p, c, "ensure")) :
                  c \in certificate_ids}

\* _issue_certificate with the failure of the INSERT swallowed
_issue_certificate_swallow(certs, logs, txn, p, note) ==
    {LET made == CertificateCreate(certs, NewCertificate(txn, p, c, "issue"))
     IN  IF made.error # ""
         THEN [error |-> "", certs |-> certs, logs |-> logs, cert |-> 0]
         ELSE [error |-> "", certs |-> made.certs, cert |-> made.cert,
               logs |-> Append(logs, [certificate |-> made.cert, status |-> "pending",
                                      detail |-> [note |-> note, trigger |-> "",
                                                  reason |-> ""]])] :
     c \in _make_certificate_id}

\* _issue_certificate(payment, note): the certificate and its pending log,
\* for each value _make_certificate_id() may return
_issue_certificate(certs, logs, txn, p, note) ==
    {LET made == CertificateCreate(certs, NewCertificate(txn, p, c, "issue"))
     IN  IF made.error # ""
         THEN [error |-> made.error, certs |-> certs, logs |-> logs, cert |-> 0]
         ELSE [error |-> "", certs |-> made.certs, cert |-> made.cert,
               logs |-> Append(logs, [certificate |-> made.cert, status |-> "pending",
                                      detail |-> [note |-> note, trigger |-> "",
                                                  reason |-> ""]])] :
     c \in _make_certificate_id}

\* a scheduling that starts no second timer for a certificate
_schedule_certificate_email_once(tms, cert) ==
    IF \E i \in DOMAIN tms : tms[i].certificate = cert THEN tms
    ELSE Append(tms, [certificate |-> cert, fired |-> FALSE, send |-> "pending",
                      found_status |-> ""])

\* _schedule_certificate_email(...): threading.Timer(delay_seconds, _send).start()
_schedule_certificate_email(tms, cert) ==
    Append(tms, [certificate |-> cert, fired |-> FALSE, send |-> "pending",
                 found_status |-> ""])

\* a block that keeps what was written when an exception leaves it
atomic_no_rollback(before, written, exception) == written

\* with transaction.atomic(): the stored tables after the block, given the
\* tables before it, the tables as its statements wrote them, and the
\* exception that left it ("" when it ended normally)
atomic(before, written, exception) == IF exception # "" THEN before ELSE written

\* the stored tables a handler's transaction works on
Tables == [payments |-> payments, certificates |-> certificates,
           delivery_logs |-> delivery_logs]

Commit(db) ==
    /\ payments' = db.payments
    /\ certificates' = db.certificates
    /\ delivery_logs' = db.delivery_logs

(* ----------------------------- handlers ------------------------------- *)

\* checkout_plan: validates the body and stores a Payment in status initiated
checkout_plan(txn, payload) ==
    /\ UNCHANGED <<certificates, delivery_logs, timers>>
    /\ IF \/ payload.planType \notin Plans
          \/ ~payload.declarationAccepted
          \/ RequiresProject(payload.planType) /\ payload.projectLink = ""
          \/ payload.orientation \notin {"horizontal", "vertical"}
       THEN /\ last' = Response("checkout", txn, "ValidationError", 0, FALSE)
            /\ UNCHANGED payments
       ELSE IF payments[txn].exists
       THEN \* transaction_id is unique: the INSERT fails, caught as a 500
            /\ last' = Response("checkout", txn, "IntegrityError", 0, FALSE)
            /\ UNCHANGED payments
       ELSE /\ payments' = [payments EXCEPT ![txn] =
                   [exists |-> TRUE, plan_type |-> payload.planType, name |-> payload.name,
                    email |-> payload.email, course |-> payload.courseSlug,
                    certificate_orientation |-> payload.orientation,
                    status |-> "initiated",
                    metadata |-> [projectDescription |-> "", phonepe_callback |-> FALSE,
                                  basicCertificate |-> NoBasicCertificate]]]
            /\ last' = Response("checkout", txn, "", 0, FALSE)

\* phonepe_payment_callback: the gateway reports the outcome of a payment;
\* metadata["phonepe_callback"] keeps that a callback was received
phonepe_payment_callback(txn, code) ==
    /\ UNCHANGED <<certificates, delivery_logs, timers>>
    /\ IF ~payments[txn].exists
       THEN /\ last' = Response("callback", txn, "NotFound", 0, FALSE)
            /\ UNCHANGED payments
       ELSE LET p == payments[txn]
                status == IF code = "PAYMENT_SUCCESS" THEN "paid"
                          ELSE IF code = "PAYMENT_ERROR" THEN "failed"
                          ELSE p.status
            IN  /\ payments' = [payments EXCEPT ![txn] =
                       [p EXCEPT !.status = status, !.metadata.phonepe_callback = TRUE]]
                /\ last' = Response("callback", txn, "", 0, FALSE)

\* issue_certificate: marks the payment paid, ensures its certificate inside
\* the same transaction, then starts the delivery timer
issue_certificate(txn) ==
    IF ~payments[txn].exists
    THEN /\ last' = Response("issue", txn, "NotFound", 0, FALSE)
         /\ UNCHANGED <<payments, certificates, delivery_logs, timers>>
    ELSE LET payment == [payments[txn] EXCEPT !.status = "paid"]
             saved == [Tables EXCEPT !.payments[txn] = payment]
         IN  \E ensured \in _ensure_certificate(certificates, txn, payment, NoId) :
             LET written == [saved EXCEPT !.certificates = ensured.certs]
             IN  /\ Len(certificates) < MaxCerts \/ Len(ensured.certs) = Len(certificates)
                 /\ Commit(atomic(Tables, written, ensured.error))
                 /\ IF ensured.error # ""
                    THEN /\ last' = Response("issue", txn, ensured.error, 0, FALSE)
                         /\ UNCHANGED timers
                    ELSE /\ timers' = _schedule_certificate_email(timers, ensured.cert)
                         /\ last' = Response("issue", txn, "", ensured.cert,
                                             Len(ensured.certs) > Len(certificates))

\* render_basic_certificate saving the payment as soon as the overrides are
\* applied to it
SavedBeforeEnsure_overrides(db, txn, updated) == [db EXCEPT !.payments[txn] = updated]

\* what render_basic_certificate has written of the payment it updated in
\* memory when it calls _ensure_certificate: nothing, payment.save comes
\* after the call
SavedBeforeEnsure(db, txn, updated) == db

\* render_basic_certificate: applies the overrides to the payment and ensures
\* the certificate, under the requested ID when one is sent
render_basic_certificate(txn, overrides) ==
    IF ~payments[txn].exists
    THEN /\ last' = Response("render", txn, "NotFound", 0, FALSE)
         /\ UNCHANGED <<payments, certificates, delivery_logs, timers>>
    ELSE IF payments[txn].plan_type # "basic"
    THEN /\ last' = Response("render", txn, "ValidationError", 0, FALSE)
         /\ UNCHANGED <<payments, certificates, delivery_logs, timers>>
    ELSE IF overrides.awardDate # "" /\ ParseDate(overrides.awardDate) = ""
    THEN \* strptime raises ValueError inside the atomic block, before any write
         /\ last' = Response("render", txn, "ValueError", 0, FALSE)
         /\ UNCHANGED <<payments, certificates, delivery_logs, timers>>
    ELSE LET payment == payments[txn]
             student_name == StripText(overrides.studentName)
             old == payment.metadata.basicCertificate
             m1 == [old EXCEPT !.courseTitle = SetMetaText(@, overrides.courseTitle)]
             m2 == [m1 EXCEPT !.awardDate = SetMetaText(@, ParseDate(overrides.awardDate))]
             m3 == [m2 EXCEPT !.qrPayload = SetMetaQr(@, overrides.qrPayload)]
             m4 == [m3 EXCEPT !.courseTitle =
                        IF @ = "" THEN CourseTitle(payment.course) ELSE @]
             m5 == [m4 EXCEPT !.awardDate = IF @ = "" THEN Today ELSE @]
         IN  \E ensured \in _ensure_certificate(certificates, txn, payment,
                                                  overrides.certificateId) :
             /\ Len(certificates) < MaxCerts \/ Len(ensured.certs) = Len(certificates)
             /\ UNCHANGED timers
             /\ IF ensured.error = "ValueError"
                THEN \* caught: the block ends normally and commits what was
                     \* written before the exception
                     /\ Commit(atomic(Tables,
                               [SavedBeforeEnsure(Tables, txn,
                                    [payment EXCEPT
                                        !.name = IF student_name # "" THEN student_name
                                                 ELSE @,
                                        !.metadata.basicCertificate = m5])
                                   EXCEPT !.certificates = ensured.certs], ""))
                     /\ last' = Response("render", txn, "ConflictError", 0, FALSE)
                ELSE IF ensured.error # ""
                THEN /\ Commit(atomic(Tables, Tables, ensured.error))
                     /\ last' = Response("render", txn, ensured.error, 0, FALSE)
                ELSE LET m6 == [m5 EXCEPT !.qrPayload =
                                   IF @ = NoId
                                   THEN ensured.certs[ensured.cert].certificate_id ELSE @]
                         written ==
                             [Tables EXCEPT
                                 !.certificates = ensured.certs,
                                 !.payments[txn] =
                                     [payment EXCEPT
                                         !.name = IF student_name # "" THEN student_name ELSE @,
                                         !.metadata.basicCertificate = m6]]
                     IN  /\ Commit(atomic(Tables, written, ""))
                         /\ last' = Response("render", txn, "", ensured.cert,
                                             Len(ensured.certs) > Len(certificates))

\* fulfillment_handler: marks the payment paid, stores the project
\* description and issues a certificate, in one transaction
fulfillment_handler(txn, description) ==
    IF ~payments[txn].exists
    THEN /\ last' = Response("fulfillment", txn, "NotFound", 0, FALSE)
         /\ UNCHANGED <<payments, certificates, delivery_logs, timers>>
    ELSE IF RequiresProject(payments[txn].plan_type) /\ IsShort(description)
    THEN /\ last' = Response("fulfillment", txn, "ValidationError", 0, FALSE)
         /\ UNCHANGED <<payments, certificates, delivery_logs, timers>>
    ELSE LET payment == [payments[txn] EXCEPT !.status = "paid",
                                              !.metadata.projectDescription = description]
             saved == [Tables EXCEPT !.payments[txn] = payment]
         IN  \E issued \in _issue_certificate(certificates, delivery_logs, txn, payment,
                                                "Issued via fulfillment handler") :
             LET written == [saved EXCEPT !.certificates = issued.certs,
                                          !.delivery_logs = issued.logs]
             IN  /\ Len(certificates) < MaxCerts
                 /\ UNCHANGED timers
                 /\ Commit(atomic(Tables, written, issued.error))
                 /\ last' = Response("fulfillment", txn, issued.error, issued.cert,
                                     issued.error = "")

\* what send_certificate_email does: returns, or raises GmailSendError
SendOutcomes == {"delivered", "GmailSendError"}

\* the delivery logs the admin and recovery requests may add to
MaxLogs == 2

\* a CertificateDeliveryLog row as the three synchronous senders create it
SendLog(cert, trigger, recipient, outcome) ==
    [certificate |-> cert,
     status |-> IF outcome = "delivered" THEN "sent" ELSE "failed",
     detail |-> [note |-> "", trigger |-> trigger, recipient |-> recipient,
                 reason |-> IF outcome = "delivered" THEN "" ELSE outcome]]

\* the bodies of PATCH /admin/certificates/: "email" and "status" are set
\* when the body has the key, to whatever value it holds
AdminStatuses == {"issued", "revoked", "pending"}

AdminPatches ==
    {[status |-> st] : st \in AdminStatuses}
        \cup {[email |-> "admin@x"], [email |-> "admin@x", status |-> "revoked"]}

\* the certificate IDs the admin and verification requests name
LookupIds ==
    {<<"C", "E", "R", "T", "-", "A">>, <<"C", "E", "R", "T", "-", "1">>,
     <<"c", "e", "r", "t", "-", "a">>, <<" ", "C", "e", "r", "t", "-", "1", " ">>,
     <<"C", "E", "R", "T", "-">>, <<"E", "R", "T", "-", "A">>, <<" ">>}

\* Certificate.objects.filter(certificate_id=certificate_id).first()
ExactLookup(certs, cid) == First({k \in DOMAIN certs : certs[k].certificate_id = cid})

\* admin_certificates, PATCH: sets the email and the status of a certificate
admin_certificates(certificate_id, payload) ==
    LET certificate == ExactLookup(certificates, certificate_id)
    IN  /\ UNCHANGED <<payments, delivery_logs, timers>>
        /\ IF certificate_id = NoId
           THEN /\ last' = Response("admin_patch", "", "ValidationError", 0, FALSE)
                /\ UNCHANGED certificates
           ELSE IF certificate = 0
           THEN /\ last' = Response("admin_patch", "", "NotFound", 0, FALSE)
                /\ UNCHANGED certificates
           ELSE /\ certificates' = [certificates EXCEPT ![certificate] =
                       [@ EXCEPT
                           !.email = IF "email" \in DOMAIN payload
                                     THEN payload.email ELSE @,
                           !.status = IF "status" \in DOMAIN payload
                                      THEN payload.status ELSE @]]
                /\ last' = Response("admin_patch", "", "", certificate, FALSE)

\* admin_send_certificate: sends the confirmation now and logs the outcome
admin_send_certificate(certificate_id, email, outcome) ==
    LET certificate == ExactLookup(certificates, certificate_id)
        recipient == IF email # "" THEN email ELSE certificates[certificate].email
    IN  /\ UNCHANGED <<payments, certificates, timers>>
        /\ IF certificate = 0
           THEN /\ last' = Response("admin_send", "", "NotFound", 0, FALSE)
                /\ UNCHANGED delivery_logs
           ELSE IF recipient = ""
           THEN /\ last' = Response("admin_send", "", "ValidationError", certificate, FALSE)
                /\ UNCHANGED delivery_logs
           ELSE /\ Len(delivery_logs) < MaxLogs
                /\ delivery_logs' = Append(delivery_logs,
                       SendLog(certificate, "admin-panel", recipient, outcome))
                /\ last' = Response("admin_send", "",
                                    IF outcome = "delivered" THEN "" ELSE outcome,
                                    certificate, FALSE)

\* the newest issued certificate of an email address:
\* filter(email__iexact=email, status="issued").order_by("-created_at").first();
\* addresses are compared as written, the requests name them in stored case
LatestIssued(certs, email) ==
    LET found == {k \in DOMAIN certs : certs[k].email = email /\ certs[k].status = "issued"}
    IN  IF found = {} THEN 0 ELSE CHOOSE k \in found : \A j \in found : j <= k

\* recover_certificate recording the outcome on the newest log of the
\* certificate instead of a new one
recover_certificate_overwrites(email, outcome) ==
    LET certificate == LatestIssued(certificates, email)
        logged == {k \in DOMAIN delivery_logs : delivery_logs[k].certificate = certificate}
    IN  /\ UNCHANGED <<payments, certificates, timers>>
        /\ IF email = ""
           THEN /\ last' = Response("recover", "", "ValidationError", 0, FALSE)
                /\ UNCHANGED delivery_logs
           ELSE IF certificate = 0
           THEN /\ last' = Response("recover", "", "", 0, FALSE)
                /\ UNCHANGED delivery_logs
           ELSE /\ Len(delivery_logs) < MaxLogs
                /\ delivery_logs' =
                       IF logged = {}
                       THEN Append(delivery_logs,
                                SendLog(certificate, "self-recovery", "", outcome))
                       ELSE [delivery_logs EXCEPT
                                ![CHOOSE k \in logged : \A j \in logged : j <= k] =
                                    SendLog(certificate, "self-recovery", "", outcome)]
                /\ last' = Response("recover", "", "", certificate, FALSE)

\* recover_certificate: emails the reference of the newest issued certificate
\* of the address and logs the outcome; the response is queued either way
recover_certificate(email, outcome) ==
    LET certificate == LatestIssued(certificates, email)
    IN  /\ UNCHANGED <<payments, certificates, timers>>
        /\ IF email = ""
           THEN /\ last' = Response("recover", "", "ValidationError", 0, FALSE)
                /\ UNCHANGED delivery_logs
           ELSE IF certificate = 0
           THEN /\ last' = Response("recover", "", "", 0, FALSE)
                /\ UNCHANGED delivery_logs
           ELSE /\ Len(delivery_logs) < MaxLogs
                /\ delivery_logs' = Append(delivery_logs,
                       SendLog(certificate, "self-recovery", "", outcome))
                /\ last' = Response("recover", "", "", certificate, FALSE)

\* a lookup by certificate_id__istartswith
VerifyLookup_istartswith(certs, cid) ==
    First({k \in DOMAIN certs :
              /\ Len(cid) <= Len(certs[k].certificate_id)
              /\ IExact(SubSeq(certs[k].certificate_id, 1, Len(cid)), cid)})

\* Certificate.objects.filter(certificate_id__iexact=certificate_id).first()
VerifyLookup(certs, cid) == First({k \in DOMAIN certs : IExact(certs[k].certificate_id, cid)})

\* the body of a verify_certificate for which every certificate that is
\* not revoked verifies
VerificationResult_unless_revoked(certs, pays, certificate_id) ==
    LET cid == Strip(certificate_id)
        certificate == VerifyLookup(certs, cid)
    IN  IF cid = NoId
        THEN [op |-> "verify", error |-> "ValidationError"]
        ELSE IF certificate = 0
        THEN [op |-> "verify", error |-> "", certificateId |-> cid, verified |-> FALSE,
              message |-> "Certificate not found."]
        ELSE [op |-> "verify", error |-> "",
              certificateId |-> certs[certificate].certificate_id,
              verified |-> certs[certificate].status # "revoked",
              holder |-> [name |-> pays[certs[certificate].payment].name,
                          email |-> pays[certs[certificate].payment].email,
                          planType |-> certs[certificate].plan_type,
                          transactionId |-> certs[certificate].payment],
              orientation |-> certs[certificate].orientation,
              cert |-> certificate]

\* the body of a verify_certificate that answers a miss with a holder block
\* of empty fields
VerificationResult_empty_holder(certs, pays, certificate_id) ==
    LET cid == Strip(certificate_id)
        certificate == VerifyLookup(certs, cid)
    IN  IF cid = NoId
        THEN [op |-> "verify", error |-> "ValidationError"]
        ELSE IF certificate = 0
        THEN [op |-> "verify", error |-> "", certificateId |-> cid, verified |-> FALSE,
              message |-> "Certificate not found.",
              holder |-> [name |-> "", email |-> "", planType |-> "", transactionId |-> ""],
              orientation |-> "", cert |-> 0]
        ELSE [op |-> "verify", error |-> "",
              certificateId |-> certs[certificate].certificate_id,
              verified |-> certs[certificate].status = "issued",
              holder |-> [name |-> pays[certs[certificate].payment].name,
                          email |-> pays[certs[certificate].payment].email,
                          planType |-> certs[certificate].plan_type,
                          transactionId |-> certs[certificate].payment],
              orientation |-> certs[certificate].orientation,
              cert |-> certificate]

\* the body verify_certificate answers with
VerificationResult(certs, pays, certificate_id) ==
    LET cid == Strip(certificate_id)
        certificate == VerifyLookup(certs, cid)
    IN  IF cid = NoId
        THEN [op |-> "verify", error |-> "ValidationError"]
        ELSE IF certificate = 0
        THEN [op |-> "verify", error |-> "", certificateId |-> cid, verified |-> FALSE,
              message |-> "Certificate not found."]
        ELSE [op |-> "verify", error |-> "",
              certificateId |-> certs[certificate].certificate_id,
              verified |-> certs[certificate].status = "issued",
              holder |-> [name |-> pays[certs[certificate].payment].name,
                          email |-> pays[certs[certificate].payment].email,
                          planType |-> certs[certificate].plan_type,
                          transactionId |-> certs[certificate].payment],
              orientation |-> certs[certificate].orientation,
              cert |-> certificate]

\* verify_certificate: looks the ID up and answers; nothing is written
verify_certificate(certificate_id) ==
    /\ last' = VerificationResult(certificates, payments, certificate_id)
    /\ UNCHANGED <<payments, certificates, delivery_logs, timers>>

\* _send giving up, without a send and without a log, when the certificate
\* is no longer issued
_send_skips_revoked(i, outcome) ==
    /\ i \in DOMAIN timers
    /\ ~timers[i].fired
    /\ timers' = [timers EXCEPT ![i].fired = TRUE, ![i].send = outcome,
                               ![i].found_status = certificates[timers[i].certificate].status]
    /\ delivery_logs' =
           IF certificates[timers[i].certificate].status = "issued"
           THEN Append(delivery_logs,
                    [certificate |-> timers[i].certificate,
                     status |-> IF outcome = "delivered" THEN "sent" ELSE "failed",
                     detail |-> [note |-> "", trigger |-> "auto-issue-delayed",
                                 reason |-> IF outcome = "delivered" THEN "" ELSE outcome]])
           ELSE delivery_logs
    /\ UNCHANGED <<payments, certificates, last, requests, grader, gateway>>

\* _send with a failed send reported on the request and the issuance undone
_send_failure_surfaces(i, outcome) ==
    /\ i \in DOMAIN timers
    /\ ~timers[i].fired
    /\ timers' = [timers EXCEPT ![i].fired = TRUE, ![i].send = outcome,
                               ![i].found_status = certificates[timers[i].certificate].status]
    /\ delivery_logs' = Append(delivery_logs,
           [certificate |-> timers[i].certificate,
            status |-> IF outcome = "delivered" THEN "sent" ELSE "failed",
            detail |-> [note |-> "", trigger |-> "auto-issue-delayed",
                        reason |-> IF outcome = "delivered" THEN "" ELSE outcome]])
    /\ IF outcome = "delivered"
       THEN UNCHANGED <<certificates, last>>
       ELSE /\ certificates' = [certificates EXCEPT ![timers[i].certificate].status = "pending"]
            /\ last' = [last EXCEPT !.error = outcome]
    /\ UNCHANGED <<payments, requests, grader, gateway>>

\* _send without the except branch: a failed send leaves no log
_send_no_failed_log(i, outcome) ==
    /\ i \in DOMAIN timers
    /\ ~timers[i].fired
    /\ timers' = [timers EXCEPT ![i].fired = TRUE, ![i].send = outcome,
                               ![i].found_status = certificates[timers[i].certificate].status]
    /\ delivery_logs' =
           IF outcome = "delivered"
           THEN Append(delivery_logs,
                    [certificate |-> timers[i].certificate, status |-> "sent",
                     detail |-> [note |-> "", trigger |-> "auto-issue-delayed",
                                 reason |-> ""]])
           ELSE delivery_logs
    /\ UNCHANGED <<payments, certificates, last, requests, grader, gateway>>

\* _send: the timer fires; send_certificate_email either returns or raises
\* GmailSendError, and one delivery log records which
_send(i, outcome) ==
    /\ i \in DOMAIN timers
    /\ ~timers[i].fired
    /\ timers' = [timers EXCEPT ![i].fired = TRUE, ![i].send = outcome,
                               ![i].found_status = certificates[timers[i].certificate].status]
    /\ delivery_logs' = Append(delivery_logs,
           [certificate |-> timers[i].certificate,
            status |-> IF outcome = "delivered" THEN "sent" ELSE "failed",
            detail |-> [note |-> "", trigger |-> "auto-issue-delayed",
                        reason |-> IF outcome = "delivered" THEN "" ELSE outcome]])
    /\ UNCHANGED <<payments, certificates, last, requests, grader, gateway>>

(* ------------------- issue_certificate, step by step ------------------ *)

\* the issue_certificate requests that may be in progress at once
RequestIds == {1, 2}

\* a request slot no request is using
Idle == [pc |-> "idle", txn |-> "", status |-> "", wrote |-> FALSE, certificate |-> 0]

\* the request holds the lock its UPDATE took on the payment row
HoldsRowLock(r, txn) == requests[r].txn = txn /\ requests[r].wrote

\* payment = Payment.objects.filter(transaction_id=...).first(): the request
\* keeps the row as it was committed when it read it
IssueLoad(r, txn) ==
    /\ requests[r].pc = "idle"
    /\ payments[txn].exists
    /\ requests' = [requests EXCEPT ![r] =
           [Idle EXCEPT !.pc = "loaded", !.txn = txn, !.status = payments[txn].status]]
    /\ UNCHANGED <<payments, certificates, delivery_logs, timers, last, grader, gateway>>

\* with transaction.atomic(): if payment.status != "paid": payment.save(...);
\* the UPDATE waits for the row lock of another open transaction
IssueSave(r) ==
    /\ requests[r].pc = "loaded"
    /\ IF requests[r].status # "paid"
       THEN /\ \A o \in RequestIds \ {r} : ~HoldsRowLock(o, requests[r].txn)
            /\ requests' = [requests EXCEPT ![r].pc = "saved", ![r].wrote = TRUE,
                                            ![r].status = "paid"]
       ELSE requests' = [requests EXCEPT ![r].pc = "saved"]
    /\ UNCHANGED <<payments, certificates, delivery_logs, timers, last, grader, gateway>>

\* _ensure_certificate: payment.certificates.filter(plan_type=...).first(),
\* over the rows committed when the query runs
IssueLookup(r) ==
    /\ requests[r].pc = "saved"
    /\ requests' = [requests EXCEPT ![r].pc = "looked",
           ![r].certificate = First(CertsOf(certificates, requests[r].txn,
                                            payments[requests[r].txn].plan_type))]
    /\ UNCHANGED <<payments, certificates, delivery_logs, timers, last, grader, gateway>>

\* the rest of the atomic block and its end: the INSERT when the lookup found
\* nothing, then the commit, or the rollback when the INSERT failed
IssueCommit(r) ==
    LET txn == requests[r].txn
        payment == [payments[txn] EXCEPT !.status = requests[r].status]
        saved == IF requests[r].wrote
                 THEN [Tables EXCEPT !.payments[txn].status = "paid"]
                 ELSE Tables
        first_ids == _make_certificate_id
        certificate_ids ==
            UNION {IF IdInUse(certificates, c) THEN _make_certificate_id ELSE {c} :
                   c \in first_ids}
        outcomes ==
            IF requests[r].certificate # 0
            THEN {[error |-> "", certs |-> certificates, cert |-> requests[r].certificate]}
            ELSE {CertificateCreate(certificates, NewCertificate(txn, payment, c, "ensure")) :
                  c \in certificate_ids}
    IN  /\ requests[r].pc = "looked"
        /\ \E ensured \in outcomes :
               /\ Len(certificates) < MaxCerts \/ Len(ensured.certs) = Len(certificates)
               /\ Commit(atomic(Tables, [saved EXCEPT !.certificates = ensured.certs],
                                ensured.error))
               /\ IF ensured.error # ""
                  THEN /\ requests' = [requests EXCEPT ![r] = Idle]
                       /\ last' = Response("issue", txn, ensured.error, 0, FALSE)
                  ELSE /\ requests' = [requests EXCEPT ![r].pc = "committed",
                                           ![r].wrote = FALSE,
                                           ![r].certificate = ensured.cert]
                       /\ UNCHANGED last
        /\ UNCHANGED <<timers, grader, gateway>>

\* after the block: _schedule_certificate_email(...) and the response
IssueRespond(r) ==
    /\ requests[r].pc = "committed"
    /\ Len(timers) < MaxTimers
    /\ timers' = _schedule_certificate_email(timers, requests[r].certificate)
    /\ last' = Response("issue", requests[r].txn, "", requests[r].certificate, FALSE)
    /\ requests' = [requests EXCEPT ![r] = Idle]
    /\ UNCHANGED <<payments, certificates, delivery_logs, grader, gateway>>

(* --------------------------- assessment grader ------------------------ *)

\* _get_assessment(...) finds no active assessment
NoAssessment == [exists |-> FALSE]

\* Python floats are IEEE-754 doubles.  A positive double is held as its
\* 53 significand bits m (m[1] = 1, most significant first) and the exponent
\* e of m[1]: its value is the sum of m[i] * 2^(e + 1 - i).  Zero has no bits.
FloatZero == [e |-> 0, m |-> <<>>]

Zeros(k) == [i \in 1..k |-> 0]

HasOne(bits) == \E i \in DOMAIN bits : bits[i] = 1

RECURSIVE StripZeros(_)
StripZeros(bits) ==
    IF bits = <<>> \/ bits[1] = 1 THEN bits ELSE StripZeros(Tail(bits))

RECURSIVE BitsToInt(_)
BitsToInt(bits) ==
    IF bits = <<>> THEN 0
    ELSE 2 * BitsToInt(SubSeq(bits, 1, Len(bits) - 1)) + bits[Len(bits)]

\* bits + 1 on the same number of bits, with the carry out of the top bit
Increment(bits) ==
    LET zeros == {i \in DOMAIN bits : bits[i] = 0} IN
    IF zeros = {} THEN [bits |-> Zeros(Len(bits)), carry |-> 1]
    ELSE LET z == CHOOSE i \in zeros : \A j \in zeros : j <= i
         IN  [bits  |-> [i \in 1..Len(bits) |->
                            IF i < z THEN bits[i] ELSE IF i = z THEN 1 ELSE 0],
              carry |-> 0]

\* a + b for two bit strings; the sum has one bit more than the longer one
AddBits(a, b) ==
    LET n == IF Len(a) > Len(b) THEN Len(a) ELSE Len(b)
        x == Zeros(n - Len(a)) \o a
        y == Zeros(n - Len(b)) \o b
        \* the carry out of the i lowest bits
        carry[i \in 0..n] ==
            IF i = 0 THEN 0
            ELSE (x[n + 1 - i] + y[n + 1 - i] + carry[i - 1]) \div 2
    IN  [i \in 1..(n + 1) |->
            IF i = 1 THEN carry[n]
            ELSE (x[i - 1] + y[i - 1] + carry[n + 1 - i]) % 2]

\* round to nearest, ties to even: bits (bits[1] = 1) is the exact
\* significand as far as it was computed, sticky tells that the exact value
\* has further nonzero bits behind it
RoundToDouble(bits, sticky, e) ==
    LET n     == Len(bits)
        kept  == IF n >= 53 THEN SubSeq(bits, 1, 53) ELSE bits \o Zeros(53 - n)
        guard == IF n >= 54 THEN bits[54] ELSE 0
        rest  == sticky \/ (n >= 55 /\ HasOne(SubSeq(bits, 55, n)))
        up    == guard = 1 /\ (rest \/ kept[53] = 1)
        inc   == Increment(kept)
    IN  IF ~up THEN [e |-> e, m |-> kept]
        ELSE IF inc.carry = 1 THEN [e |-> e + 1, m |-> <<1>> \o Zeros(52)]
        ELSE [e |-> e, m |-> inc.bits]

\* n / d = (n' / d') * 2^e with 1 <= n' / d' < 2
RECURSIVE Scale(_, _, _)
Scale(n, d, e) ==
    IF n < d THEN Scale(2 * n, d, e - 1)
    ELSE IF n >= 2 * d THEN Scale(n, 2 * d, e + 1)
    ELSE [n |-> n, d |-> d, e |-> e]

\* the next k bits of r / d (r < d) behind the binary point
RECURSIVE Expand(_, _, _)
Expand(r, d, k) ==
    IF k = 0 THEN <<>>
    ELSE IF 2 * r >= d THEN <<1>> \o Expand(2 * r - d, d, k - 1)
    ELSE <<0>> \o Expand(2 * r, d, k - 1)

\* what is left of r / d after these k bits
RECURSIVE Remainder(_, _, _)
Remainder(r, d, k) ==
    IF k = 0 THEN r
    ELSE IF 2 * r >= d THEN Remainder(2 * r - d, d, k - 1)
    ELSE Remainder(2 * r, d, k - 1)

\* n / d for two ints (true division), and float(Decimal) of n hundredths:
\* the double nearest to the quotient
FloatDiv(n, d) ==
    IF n = 0 THEN FloatZero
    ELSE LET s == Scale(n, d, 0)
         IN  RoundToDouble(<<1>> \o Expand(s.n - s.d, s.d, 53),
                           Remainder(s.n - s.d, s.d, 53) # 0, s.e)

\* the exact product 100 * m of a significand: 100 = 64 + 32 + 4
Times100(m) ==
    StripZeros(AddBits(AddBits(m \o Zeros(6), m \o Zeros(5)), m \o Zeros(2)))

\* x * 100
FloatMul100(x) ==
    IF x.m = <<>> THEN FloatZero
    ELSE LET product == Times100(x.m)
         IN  RoundToDouble(product, FALSE, x.e - 52 + Len(product) - 1)

\* x >= y
FloatGeq(x, y) ==
    IF y.m = <<>> THEN TRUE
    ELSE IF x.m = <<>> THEN FALSE
    ELSE IF x.e # y.e THEN x.e > y.e
    ELSE \/ x.m = y.m
         \/ \E i \in 1..53 : /\ x.m[i] > y.m[i]
                             /\ \A j \in 1..(i - 1) : x.m[j] = y.m[j]

\* round(x, 2), in hundredths: the two-decimal number nearest to the exact
\* value of x, ties to even (0 <= x < 2^31 / 100)
Round2(x) ==
    IF x.m = <<>> THEN 0
    ELSE LET product == Times100(x.m)
             n       == Len(product)
             k       == 52 - x.e
             whole   == IF k >= n THEN <<>> ELSE SubSeq(product, 1, n - k)
             frac    == IF k >= n THEN Zeros(k - n) \o product
                        ELSE SubSeq(product, n - k + 1, n)
             q       == BitsToInt(whole)
             up      == /\ frac # <<>>
                        /\ frac[1] = 1
                        /\ (HasOne(Tail(frac)) \/ q % 2 = 1)
         IN  IF up THEN q + 1 ELSE q

\* PASS_THRESHOLD = 0.4
PASS_THRESHOLD == FloatDiv(4, 10)

\* the answers of FALLBACK_QUESTIONS, by question id
FALLBACK_QUESTIONS ==
    <<"Pandas", "Comma Separated Values", "Accuracy",
      "Return the first n rows", "Linear Regression">>

\* an active Assessment with n questions (ids 1..n, each with its answer) and
\* pass_threshold, a Decimal with two places, held in hundredths
ActiveAssessment(n, pass_threshold) ==
    [exists |-> TRUE, questions |-> [i \in 1..n |-> "right"],
     pass_threshold |-> pass_threshold]

\* question_map: the questions of the assessment when it has any, else the
\* fallback bank
QuestionMap(a) ==
    IF a.exists /\ a.questions # <<>> THEN a.questions ELSE FALLBACK_QUESTIONS

\* threshold, chosen with the bank
Threshold(a) ==
    IF a.exists /\ a.questions # <<>> THEN FloatDiv(a.pass_threshold, 100)
    ELSE FloatMul100(PASS_THRESHOLD)

\* question_map.get(item.get("id")) raises TypeError for an id that is a
\* JSON array or object: dict keys must be hashable
Unhashable(responses) ==
    \E i \in DOMAIN responses : responses[i].id_type = "array"

\* the loop over responses: an item whose id is not in the bank is skipped,
\* every other item with the right answer counts, repeated or not
RECURSIVE CorrectCount(_, _)
CorrectCount(question_map, responses) ==
    IF responses = <<>> THEN 0
    ELSE LET item == Head(responses)
             hit  == /\ item.id_type = "number"
                     /\ item.id \in DOMAIN question_map
                     /\ item.answer = question_map[item.id]
         IN  (IF hit THEN 1 ELSE 0) + CorrectCount(question_map, Tail(responses))

\* the grade with passed = percentage > threshold
Grade_strictly_above(correct_count, total_questions, threshold) ==
    LET percentage == FloatMul100(FloatDiv(correct_count, total_questions))
    IN  [percentage |-> Round2(percentage),
         passed     |-> ~FloatGeq(threshold, percentage)]

\* percentage = (correct_count / total_questions) * 100 and
\* passed = percentage >= threshold, in floats; the response and the attempt
\* carry the percentage rounded to two places, here in hundredths
Grade(correct_count, total_questions, threshold) ==
    LET percentage == FloatMul100(FloatDiv(correct_count, total_questions))
    IN  [percentage |-> Round2(percentage),
         passed     |-> FloatGeq(percentage, threshold)]

\* the sizes of the question banks the admin may have set up
BankSizes == {0, 1, 5, 40}

\* the pass thresholds the admin may have set, in hundredths
PassThresholds == {0, 4000, 5750, 10000, 10050}

Assessments ==
    {NoAssessment}
        \cup {ActiveAssessment(n, h) : n \in BankSizes, h \in PassThresholds}

\* the first k questions of the bank, answered right
RightAnswers(question_map, k) ==
    [i \in 1..k |-> [id_type |-> "number", id |-> i, answer |-> question_map[i]]]

\* a wrong answer to question i
WrongAnswer(i) == [id_type |-> "number", id |-> i, answer |-> "wrong"]

\* an id no bank holds
UnknownItem == [id_type |-> "number", id |-> 999, answer |-> "right"]

\* the id [1], a JSON array
ArrayIdItem == [id_type |-> "array", id |-> 1, answer |-> "right"]

\* the lists submitted: any number of right answers (none is the empty
\* list), a wrong answer, a question answered twice, an unknown id, an id
\* that is an array
ResponseLists(question_map) ==
    {RightAnswers(question_map, k) : k \in 0..Len(question_map)}
        \cup {<<WrongAnswer(1)>>,
              <<UnknownItem>>,
              RightAnswers(question_map, 1) \o <<UnknownItem>>,
              RightAnswers(question_map, 1) \o <<WrongAnswer(2)>>,
              RightAnswers(question_map, 1) \o RightAnswers(question_map, 1),
              RightAnswers(question_map, 1) \o <<UnknownItem, WrongAnswer(2)>>,
              RightAnswers(question_map, 1) \o <<ArrayIdItem>>}

\* the value under the "responses" key: a list, another JSON value (here an
\* object), or nothing when the key is missing
ListOf(items) == [kind |-> "list", items |-> items]
NotAList == [kind |-> "object", items |-> <<>>]
Missing == [kind |-> "missing", items |-> <<>>]

\* the request bodies
Payloads(question_map) ==
    {[email |-> "a@x", responses |-> responses] :
        responses \in {ListOf(items) : items \in ResponseLists(question_map)}
                          \cup {NotAList, Missing}}

\* Grade, worked out once for every bank and every count of right answers
\* its submissions reach
Grades ==
    [a \in Assessments |->
        [correct_count \in {CorrectCount(QuestionMap(a), items) :
                               items \in ResponseLists(QuestionMap(a))} |->
            Grade(correct_count, Len(QuestionMap(a)), Threshold(a))]]

\* the check of "responses" that lets an empty list through
Rejected_unless_list(responses) == responses.kind # "list"

\* not isinstance(responses, list) or not responses
Rejected(responses) == responses.kind # "list" \/ responses.items = <<>>

\* a bank that is never taken for empty
NotReady_never(question_map) == FALSE

\* total_questions == 0: the bank read has no question
NotReady(question_map) == Len(question_map) = 0

\* what submit_assessment answers and writes for a request: the response,
\* the AssessmentAttempt rows it creates and the assessment it leaves.
\* payload.responses is the value of the "responses" key; deleted tells that
\* the admin deletes the questions of the assessment between the query of
\* questions.exists() and the query of questions.all()
SubmissionResult(a, payload, deleted) ==
    LET responses == payload.responses.items
        Failure(status, error, left) ==
            [response   |-> [op |-> "submit_assessment", status |-> status,
                             error |-> error],
             created    |-> <<>>,
             assessment |-> left]
    IN
    IF Rejected(payload.responses)
    THEN Failure(400, "Responses list is required.", a)
    ELSE LET own_bank        == a.exists /\ a.questions # <<>>
             left            == IF own_bank /\ deleted
                                THEN [a EXCEPT !.questions = <<>>] ELSE a
             question_map    == IF own_bank THEN left.questions
                                ELSE FALLBACK_QUESTIONS
             total_questions == Len(question_map)
             correct_count   == CorrectCount(question_map, responses)
             grade           == Grades[a][correct_count]
         IN  IF NotReady(question_map)
             THEN Failure(503, "Assessment is not ready. Please try later.", left)
             ELSE IF Unhashable(responses)
             THEN \* the loop raises before anything is written
                  Failure(500, "TypeError", left)
             ELSE [response |->
                       [op |-> "submit_assessment", status |-> 200,
                        error      |-> "",
                        correct    |-> correct_count,
                        total      |-> total_questions,
                        percentage |-> grade.percentage,
                        passed     |-> grade.passed,
                        nextRoute  |-> IF grade.passed THEN "/results"
                                       ELSE "/assessment"],
                   created |->
                       IF a.exists
                       THEN <<[email           |-> payload.email,
                               score_percent   |-> grade.percentage,
                               passed          |-> grade.passed,
                               responses       |-> responses,
                               correct_count   |-> correct_count,
                               total_questions |-> total_questions]>>
                       ELSE <<>>,
                   assessment |-> left]

\* submit_assessment: answers, and stores the attempt it created
submit_assessment(payload, deleted) ==
    LET result == SubmissionResult(assessment, payload, deleted)
    IN  /\ last' = result.response
        /\ attempts' = attempts \o result.created
        /\ assessment' = result.assessment
        /\ UNCHANGED <<payments, certificates, delivery_logs, timers>>

\* the attempts that may be on record before submissions are cut off
MaxAttempts == 1

(* ------------------------ gateway token cache ------------------------- *)

\* PHONEPE_TOKEN_CACHE at import: no token ("" stands for None)
EmptyCache == [token |-> "", expires_at |-> 0]

\* seconds the clock may advance in one run
MaxNow == 4

\* what the gateway may answer to the token request at a given time: a
\* failure (HTTP error, timeout, no JSON), a body without access_token, a
\* token whose expires_at is no number, and a token with an expires_at that
\* is missing (0) or 30, 31 or 32 seconds ahead
TokenReplies(time) ==
    {[kind |-> "failure", access_token |-> "", expires_at |-> 0],
     [kind |-> "json", access_token |-> "", expires_at |-> time + 31],
     [kind |-> "bad_expiry", access_token |-> "T1", expires_at |-> 0]}
        \cup [kind : {"json"}, access_token : {"T1", "T2"},
              expires_at : {0, time + 30, time + 31, time + 32}]

\* the cache test that holds a token until its declared expiry
Fresh_until_expiry(cache, time) ==
    cache.token # "" /\ cache.expires_at > time

\* PHONEPE_TOKEN_CACHE["token"] and PHONEPE_TOKEN_CACHE["expires_at"] > now + 30
Fresh(cache, time) ==
    cache.token # "" /\ cache.expires_at > time + 30

\* _fetch_phonepe_token: the cached token while it is fresh, else the
\* gateway's reply; last keeps the token returned ("" for None) and whether
\* the gateway was contacted
_fetch_phonepe_token(reply) ==
    /\ UNCHANGED <<payments, certificates, delivery_logs, timers, now>>
    /\ IF Fresh(PHONEPE_TOKEN_CACHE, now)
       THEN /\ last' = [op |-> "fetch_token", token |-> PHONEPE_TOKEN_CACHE.token,
                        contacted |-> FALSE]
            /\ UNCHANGED PHONEPE_TOKEN_CACHE
       ELSE IF reply.kind = "json" /\ reply.access_token # ""
       THEN /\ PHONEPE_TOKEN_CACHE' = [token |-> reply.access_token,
                                       expires_at |-> reply.expires_at]
            /\ last' = [op |-> "fetch_token", token |-> reply.access_token,
                        contacted |-> TRUE]
       ELSE \* the request failed, int() raised, or no token came: logged
            /\ last' = [op |-> "fetch_token", token |-> "", contacted |-> TRUE]
            /\ UNCHANGED PHONEPE_TOKEN_CACHE

\* time.time() moves on by a second
Tick ==
    /\ now < MaxNow
    /\ now' = now + 1
    /\ UNCHANGED <<payments, certificates, delivery_logs, timers, last, requests,
                   grader, PHONEPE_TOKEN_CACHE>>

(* --------------------------- specification ---------------------------- *)

Init ==
    /\ payments = [t \in TxnIds |-> NoPayment]
    /\ certificates = <<>>
    /\ delivery_logs = <<>>
    /\ timers = <<>>
    /\ last = NoResponse
    /\ requests = [r \in RequestIds |-> Idle]
    /\ assessment = NoAssessment
    /\ attempts = <<>>
    /\ PHONEPE_TOKEN_CACHE = EmptyCache
    /\ now = 0

Checkout ==
    /\ \E r \in CheckoutRequests : checkout_plan(r[1], r[2])
    /\ UNCHANGED <<requests, grader, gateway>>

Callback ==
    /\ \E t \in TxnIds, code \in CallbackCodes : phonepe_payment_callback(t, code)
    /\ UNCHANGED <<requests, grader, gateway>>

Issue ==
    /\ \E t \in TxnIds :
           /\ (payments[t].exists => Len(timers) < MaxTimers)
           /\ issue_certificate(t)
    /\ UNCHANGED <<requests, grader, gateway>>

Render ==
    /\ \E t \in TxnIds, o \in RenderOverrides : render_basic_certificate(t, o)
    /\ UNCHANGED <<requests, grader, gateway>>

Fulfillment ==
    /\ \E t \in TxnIds, d \in ProjectDescriptions : fulfillment_handler(t, d)
    /\ UNCHANGED <<requests, grader, gateway>>

Send(i) == \E outcome \in SendOutcomes : _send(i, outcome)

AdminPatch ==
    /\ \E c \in LookupIds, payload \in AdminPatches : admin_certificates(c, payload)
    /\ UNCHANGED <<requests, grader, gateway>>

AdminSend ==
    /\ \E c \in LookupIds, e \in {"", "admin@x"}, outcome \in SendOutcomes :
           admin_send_certificate(c, e, outcome)
    /\ UNCHANGED <<requests, grader, gateway>>

Recover ==
    /\ \E e \in {"", "asha@x", "admin@x"}, outcome \in SendOutcomes :
           recover_certificate(e, outcome)
    /\ UNCHANGED <<requests, grader, gateway>>

Verify ==
    /\ \E c \in LookupIds : verify_certificate(c)
    /\ UNCHANGED <<requests, grader, gateway>>

\* the request handlers, within the delay of the delivery timers
Next == Checkout \/ Callback \/ Issue \/ Render \/ Fulfillment

Spec == Init /\ [][Next]_vars

\* issuance requests and the timer threads they start; a started timer
\* thread runs _send once its delay has passed
NextDelivery == Checkout \/ Issue \/ \E i \in 1..MaxTimers : Send(i)

SpecDelivery ==
    Init /\ [][NextDelivery]_vars /\ \A i \in 1..MaxTimers : WF_vars(Send(i))

\* issuance, the admin's changes to certificates, and the timer threads
NextRevocation == Checkout \/ Issue \/ AdminPatch \/ \E i \in 1..MaxTimers : Send(i)

SpecRevocation ==
    Init /\ [][NextRevocation]_vars /\ \A i \in 1..MaxTimers : WF_vars(Send(i))

\* one purchase of the basic plan
Purchase ==
    /\ checkout_plan("TXN-1", BasicPayload)
    /\ UNCHANGED <<requests, grader, gateway>>

\* issue_certificate for that purchase
IssuePurchase ==
    /\ (payments["TXN-1"].exists => Len(timers) < MaxTimers)
    /\ issue_certificate("TXN-1")
    /\ UNCHANGED <<requests, grader, gateway>>

\* render_basic_certificate asking for a certificate ID
Rename ==
    /\ render_basic_certificate("TXN-1",
           [NoOverrides EXCEPT !.certificateId = <<"c", "e", "r", "t", "-", "b">>])
    /\ UNCHANGED <<requests, grader, gateway>>

\* fulfillment_handler for that purchase
Fulfil ==
    /\ fulfillment_handler("TXN-1", ProjectDescription)
    /\ UNCHANGED <<requests, grader, gateway>>

\* the admin revokes a certificate
Revoke ==
    /\ \E c \in _make_certificate_id : admin_certificates(c, [status |-> "revoked"])
    /\ UNCHANGED <<requests, grader, gateway>>

\* the admin sends a certificate to its own address
AdminSendOwn ==
    /\ \E c \in _make_certificate_id, outcome \in SendOutcomes :
           admin_send_certificate(c, "", outcome)
    /\ UNCHANGED <<requests, grader, gateway>>

\* the holder asks for the certificate again
RecoverOwn ==
    /\ \E outcome \in SendOutcomes : recover_certificate(BasicPayload.email, outcome)
    /\ UNCHANGED <<requests, grader, gateway>>

\* a purchase of the industrial plan
PurchaseOther ==
    /\ checkout_plan("TXN-2", IndustrialPayload)
    /\ UNCHANGED <<requests, grader, gateway>>

\* render_basic_certificate with any of the overrides
RenderWith ==
    /\ \E t \in TxnIds, o \in FullOverrides : render_basic_certificate(t, o)
    /\ UNCHANGED <<requests, grader, gateway>>

\* the renders of a basic purchase, next to the certificate of another one
NextRender == Purchase \/ PurchaseOther \/ Issue \/ RenderWith

SpecRender == Init /\ [][NextRender]_vars

\* every operation that touches a certificate or its delivery logs, for the
\* certificates of one payment
NextLogs ==
    \/ Purchase
    \/ IssuePurchase
    \/ Rename
    \/ Fulfil
    \/ Revoke
    \/ AdminSendOwn
    \/ RecoverOwn
    \/ \E i \in 1..MaxTimers : Send(i)

SpecLogs == Init /\ [][NextLogs]_vars

\* certificates issued by fulfillment, changed by the admin and verified by
\* the public
NextVerify == Checkout \/ Fulfillment \/ AdminPatch \/ Verify

SpecVerify == Init /\ [][NextVerify]_vars

\* issue_certificate requests for one purchase, up to MaxIssues of them
IssueAgain ==
    /\ (payments["TXN-1"].exists => Len(timers) < MaxIssues)
    /\ issue_certificate("TXN-1")
    /\ UNCHANGED <<requests, grader, gateway>>

\* repeated issue_certificate requests for one purchase and the delivery
\* tasks they start; every started timer fires while the process lives
NextIssues == Purchase \/ IssueAgain \/ \E i \in 1..MaxIssues : Send(i)

SpecIssues ==
    Init /\ [][NextIssues]_vars /\ \A i \in 1..MaxIssues : WF_vars(Send(i))

\* one purchase whose certificate is issued and rendered again and again,
\* changed by the admin and verified by the public
NextReissue == Purchase \/ IssueAgain \/ Render \/ AdminPatch \/ Verify

SpecReissue == Init /\ [][NextReissue]_vars

FetchToken ==
    /\ \E reply \in TokenReplies(now) : _fetch_phonepe_token(reply)
    /\ UNCHANGED <<requests, grader>>

\* the token requests of the checkouts of one process, as time passes
NextToken == FetchToken \/ Tick

SpecToken == Init /\ [][NextToken]_vars

\* the grader on its own: the admin has set up an assessment, or none
InitGrading ==
    /\ payments = [t \in TxnIds |-> NoPayment]
    /\ certificates = <<>>
    /\ delivery_logs = <<>>
    /\ timers = <<>>
    /\ last = NoResponse
    /\ requests = [r \in RequestIds |-> Idle]
    /\ assessment \in Assessments
    /\ attempts = <<>>
    /\ PHONEPE_TOKEN_CACHE = EmptyCache
    /\ now = 0

Submit ==
    /\ Len(attempts) < MaxAttempts
    /\ \E payload \in Payloads(QuestionMap(assessment)), deleted \in BOOLEAN :
           submit_assessment(payload, deleted)
    /\ UNCHANGED <<requests, gateway>>

NextGrading == Submit

SpecGrading == InitGrading /\ [][NextGrading]_vars

\* issue_certificate requests served concurrently, each in its own
\* transaction, for payments the gateway may have reported on
NextConcurrent ==
    \/ Checkout
    \/ Callback
    \/ \E r \in RequestIds, t \in TxnIds : IssueLoad(r, t)
    \/ \E r \in RequestIds : IssueSave(r)
    \/ \E r \in RequestIds : IssueLookup(r)
    \/ \E r \in RequestIds : IssueCommit(r)
    \/ \E r \in RequestIds : IssueRespond(r)

SpecConcurrent == Init /\ [][NextConcurrent]_vars

(* ------------------------------ claims -------------------------------- *)

\* the payments stored
Stored == {t \in TxnIds : payments[t].exists}

\* C1: no payment has two or more Certificate rows whose plan_type is the
\* payment's plan_type, whatever issue_certificate, render_basic_certificate
\* and fulfillment_handler requests were served
AtMostOneCertificatePerPaymentPlan ==
    \A t \in Stored : Cardinality(CertsOf(certificates, t, payments[t].plan_type)) <= 1

\* C3: when issue_certificate requests for one payment interleave, the
\* committed certificates never include two that ensure_certificate created
\* for that payment and its plan
ConcurrentIssuanceAtMostOne ==
    \A t \in Stored :
        \A j, k \in CertsOf(certificates, t, payments[t].plan_type) :
            (certificates[j].created_by = "ensure" /\ certificates[k].created_by = "ensure")
                => j = k

\* C2: in every reachable state and for every payment, a call of
\* ensure_certificate without desired_id that returns a certificate, followed
\* by a second such call, returns the same row under the same certificate_id,
\* and the second call neither inserts a row nor changes one
EnsureCertificateIdempotent ==
    \A t \in Stored :
        \A one \in _ensure_certificate(certificates, t, payments[t], NoId) :
            one.error = "" =>
                \A two \in _ensure_certificate(one.certs, t, payments[t], NoId) :
                    /\ two.error = ""
                    /\ two.cert = one.cert
                    /\ two.certs = one.certs

\* C2 witness: an ensure call without desired_id (issue_certificate) returned
\* a certificate, and the next request, again one without desired_id,
\* returned that same row without inserting
EnsureCertificateTwice ==
    /\ last.op = "issue" /\ last.error = "" /\ ~last.created
    /\ certificates[last.cert].created_by = "ensure"
    /\ certificates[last.cert].payment = last.txn

\* the payments render_basic_certificate passes on to ensure_certificate
\* together with a desired_id
Renderable == {t \in Stored : payments[t].plan_type = "basic"}

\* desired_id, once normalized, is held by a certificate other than the one
\* ensure_certificate finds for the payment
Collides(t, d) ==
    /\ NormalizeId(d) # NoId
    /\ \E k \in DOMAIN certificates :
           /\ k # First(CertsOf(certificates, t, payments[t].plan_type))
           /\ IExact(certificates[k].certificate_id, NormalizeId(d))

\* the payment has a certificate of its plan
HasCertificate(t) == CertsOf(certificates, t, payments[t].plan_type) # {}

Conflict(t, d) ==
    \A r \in _ensure_certificate(certificates, t, payments[t], d) :
        r.error = "ValueError" /\ r.certs = certificates

\* C4 as stated: a desired_id that collides with a different certificate makes
\* ensure_certificate fail with the conflict error and leaves every
\* certificate as it was, whether or not the payment has a certificate
CollidingDesiredIdConflicts ==
    \A t \in Renderable, d \in DesiredIds : Collides(t, d) => Conflict(t, d)

\* C4 as amended: the conflict error, with every certificate unchanged, is
\* the outcome when the payment already has a certificate; when it has none
\* the call raises no conflict error and stores no certificate under the
\* colliding ID: it inserts one under a generated ID or fails on the
\* uniqueness constraint, the other certificates unchanged either way
CollidingDesiredIdOutcome ==
    \A t \in Renderable, d \in DesiredIds :
        Collides(t, d) =>
            IF HasCertificate(t)
            THEN Conflict(t, d)
            ELSE \A r \in _ensure_certificate(certificates, t, payments[t], d) :
                     /\ r.error # "ValueError"
                     /\ SubSeq(r.certs, 1, Len(certificates)) = certificates
                     /\ r.error = "" =>
                            /\ Len(r.certs) = Len(certificates) + 1
                            /\ r.certs[r.cert].certificate_id \in _make_certificate_id
                            /\ r.certs[r.cert].certificate_id # NormalizeId(d)
                     /\ r.error # "" => r.error = "IntegrityError" /\ r.certs = certificates

\* C4 witness: render_basic_certificate was refused with the conflict error
\* for a payment that has a certificate
ConflictReturned ==
    /\ last.op = "render" /\ last.error = "ConflictError"
    /\ HasCertificate(last.txn)

\* the one outcome of ensure_certificate that inserts a certificate for the
\* payment under cid, issued, with the payment's email, plan, course and
\* orientation
CreatesUnder(t, d, cid) ==
    _ensure_certificate(certificates, t, payments[t], d) =
        {[error |-> "", cert |-> Len(certificates) + 1,
          certs |-> Append(certificates,
              [certificate_id |-> cid, email |-> payments[t].email,
               plan_type |-> payments[t].plan_type, course |-> payments[t].course,
               orientation |-> payments[t].certificate_orientation,
               status |-> "issued", payment |-> t,
               created_with_status |-> payments[t].status, created_by |-> "ensure"])]}

\* C5 as stated: with no certificate for the payment and a desired_id whose
\* trimmed uppercase form no certificate holds, ensure_certificate inserts
\* exactly one certificate, under exactly that form
DesiredIdUsedWhenFree ==
    \A t \in Renderable, d \in DesiredIds \ {NoId} :
        (~HasCertificate(t) /\ ~IdInUse(certificates, NormalizeId(d)))
            => CreatesUnder(t, d, NormalizeId(d))

\* C5 as amended: the same, for a desired_id that is not empty once trimmed;
\* so "cert-a" gives "CERT-A"
NonBlankDesiredIdUsedWhenFree ==
    \A t \in Renderable :
        /\ \A d \in DesiredIds :
               (/\ NormalizeId(d) # NoId
                /\ ~HasCertificate(t)
                /\ ~IdInUse(certificates, NormalizeId(d)))
                   => CreatesUnder(t, d, NormalizeId(d))
        /\ (~HasCertificate(t) /\ ~IdInUse(certificates, <<"C", "E", "R", "T", "-", "A">>))
               => CreatesUnder(t, <<"c", "e", "r", "t", "-", "a">>,
                               <<"C", "E", "R", "T", "-", "A">>)

\* C5 witness: render_basic_certificate inserted a certificate whose ID is
\* the normalized form of a requested ID
DesiredIdCreated ==
    /\ last.op = "render" /\ last.error = "" /\ last.created
    /\ certificates[last.cert].certificate_id = <<"C", "E", "R", "T", "-", "B">>

\* no two rows of a Certificate table share a certificate_id
UniqueIds(certs) ==
    \A j, k \in DOMAIN certs : j # k => certs[j].certificate_id # certs[k].certificate_id

\* C6: no two Certificate rows share a certificate_id, and neither
\* ensure_certificate (generated or desired ID) nor the fulfillment path's
\* issue_certificate stores a row under an ID another row holds
CertificateIdsUnique ==
    /\ UniqueIds(certificates)
    /\ \A t \in Stored :
           /\ \A d \in DesiredIds :
                  \A r \in _ensure_certificate(certificates, t, payments[t], d) :
                      UniqueIds(r.certs)
           /\ \A r \in _issue_certificate(certificates, delivery_logs, t, payments[t], "") :
                  UniqueIds(r.certs)

\* C6 witness: a handler drew an ID that a certificate already held and
\* stored nothing
CollisionRefused ==
    /\ last.op \in {"issue", "render", "fulfillment"}
    /\ last.error = "IntegrityError"
    /\ Len(certificates) >= 1

CertificatesCreatedForPaidPayments ==
    \A k \in DOMAIN certificates :
        certificates[k].status = "issued" => certificates[k].created_with_status = "paid"

\* a step of issue_certificate or fulfillment_handler whose certificate
\* creation failed
CreationFailed ==
    /\ Issue \/ Fulfillment
    /\ last'.op \in {"issue", "fulfillment"}
    /\ last'.error = "IntegrityError"

\* C9: when the certificate creation of issue_certificate or
\* fulfillment_handler fails, the stored payments (status and metadata), the
\* certificates and the delivery logs are what they were before the request
FailedCreationRollsBack ==
    [][CreationFailed => UNCHANGED <<payments, certificates, delivery_logs>>]_vars

\* C9 witness: the creation failed for a payment the request would have
\* moved to paid, and the payment is not paid
FailedCreationOnUnpaid ==
    /\ last.op \in {"issue", "fulfillment"}
    /\ last.error = "IntegrityError"
    /\ payments[last.txn].status # "paid"

\* the logs the timer threads appended for certificate c with status st
TimerLogs(c, st) ==
    {k \in DOMAIN delivery_logs :
        /\ delivery_logs[k].certificate = c
        /\ delivery_logs[k].detail.trigger = "auto-issue-delayed"
        /\ delivery_logs[k].status = st}

\* the timers of certificate c that fired with the send ending as outcome
FiredTimers(c, outcome) ==
    {i \in DOMAIN timers :
        timers[i].certificate = c /\ timers[i].fired /\ timers[i].send = outcome}

\* one log per fired timer and none for a timer yet to fire: sent when the
\* send returned, failed with the error as detail.reason when it raised
OneLogPerFiredTimer ==
    \A c \in DOMAIN certificates :
        /\ Cardinality(TimerLogs(c, "sent")) = Cardinality(FiredTimers(c, "delivered"))
        /\ Cardinality(TimerLogs(c, "failed")) = Cardinality(FiredTimers(c, "GmailSendError"))
        /\ \A k \in TimerLogs(c, "failed") : delivery_logs[k].detail.reason = "GmailSendError"
        /\ TimerLogs(c, "pending") = {}

\* C10: every delivery task scheduled for a certificate eventually runs, and
\* the tasks that ran have appended exactly one delivery log each, sent if
\* the send succeeded and failed with the reason if it raised
DeliveryLoggedExactlyOnce ==
    /\ []OneLogPerFiredTimer
    /\ \A i \in 1..MaxTimers : (i \in DOMAIN timers) ~> (i \in DOMAIN timers /\ timers[i].fired)

\* C10 witness: a scheduled task ran with the send raising, and the
\* certificate has its one failed log
FailedDeliveryLogged ==
    \E i \in DOMAIN timers :
        /\ timers[i].fired /\ timers[i].send = "GmailSendError"
        /\ Cardinality(TimerLogs(timers[i].certificate, "failed")) = 1
        /\ TimerLogs(timers[i].certificate, "sent") = {}

\* C11: the response of issue_certificate is given while the delivery task it
\* started has still to run, and the task, whether its send succeeds or
\* fails, changes neither that response nor the payments nor the certificates
DeliveryOffCriticalPath ==
    [][/\ (Issue /\ last'.error = "") =>
              /\ Len(timers') = Len(timers) + 1
              /\ ~timers'[Len(timers')].fired
              /\ timers'[Len(timers')].certificate = last'.cert
       /\ (\E i \in 1..MaxTimers : Send(i)) =>
              UNCHANGED <<payments, certificates, last>>]_vars

\* C11 witness: the send of the task failed after issue_certificate had
\* answered without error; the certificate is issued and the payment paid
DeliveryFailedAfterResponse ==
    \E i \in DOMAIN timers :
        /\ timers[i].fired /\ timers[i].send = "GmailSendError"
        /\ last.op = "issue" /\ last.error = ""
        /\ last.cert = timers[i].certificate
        /\ certificates[last.cert].status = "issued"
        /\ payments[last.txn].status = "paid"

\* timer i is waiting and its certificate has been revoked
RevokedWhilePending(i) ==
    /\ i \in DOMAIN timers
    /\ ~timers[i].fired
    /\ certificates[timers[i].certificate].status = "revoked"

\* C12: a delivery task whose certificate is revoked while the task waits
\* still runs, and its run attempts the send and appends one sent or failed
\* log for the revoked certificate
RevokedDeliveryStillRuns ==
    /\ \A i \in 1..MaxTimers :
           RevokedWhilePending(i) ~>
               (/\ i \in DOMAIN timers
                /\ timers[i].fired
                /\ timers[i].send \in SendOutcomes
                /\ TimerLogs(timers[i].certificate, "sent")
                       \cup TimerLogs(timers[i].certificate, "failed") # {})
    /\ [][\A i \in 1..MaxTimers :
              (RevokedWhilePending(i) /\ Send(i)) =>
                  /\ Len(delivery_logs') = Len(delivery_logs) + 1
                  /\ delivery_logs'[Len(delivery_logs')].certificate = timers[i].certificate
                  /\ delivery_logs'[Len(delivery_logs')].status \in {"sent", "failed"}]_vars

\* C12 witness: a task ran while its certificate was revoked, and the
\* certificate has the log of that run
RevokedDeliveryLogged ==
    \E i \in DOMAIN timers :
        /\ timers[i].fired
        /\ timers[i].found_status = "revoked"
        /\ TimerLogs(timers[i].certificate, "sent")
               \cup TimerLogs(timers[i].certificate, "failed") # {}

\* C13: every step of the delivery task, recover_certificate,
\* admin_send_certificate, fulfillment_handler, a rename by ensure_certificate
\* or the admin's PATCH leaves each existing delivery log as it was, at its
\* place; the logs only grow
DeliveryLogAppendOnly ==
    [][/\ Len(delivery_logs') >= Len(delivery_logs)
       /\ SubSeq(delivery_logs', 1, Len(delivery_logs)) = delivery_logs]_vars

\* C13 witness: the pending log fulfillment_handler wrote for a certificate
\* is still the first log, after the certificate was revoked and a sender
\* added a sent or failed log for it
LogKeptAfterLaterSends ==
    /\ Len(delivery_logs) >= 2
    /\ delivery_logs[1].status = "pending"
    /\ certificates[delivery_logs[1].certificate].status = "revoked"
    /\ \E j \in 2..Len(delivery_logs) :
           /\ delivery_logs[j].certificate = delivery_logs[1].certificate
           /\ delivery_logs[j].status \in {"sent", "failed"}

\* C14: every call of the fulfillment path's issue_certificate(payment, note)
\* inserts one certificate for the payment, issued and under a generated ID,
\* and appends one pending log with the note for it, whether or not the
\* payment has a certificate
IssueCertificateUnconditional ==
    \A t \in Stored :
        \A r \in _issue_certificate(certificates, delivery_logs, t, payments[t], "a note") :
            /\ r.error = ""
            /\ r.cert = Len(certificates) + 1
            /\ Len(r.certs) = Len(certificates) + 1
            /\ SubSeq(r.certs, 1, Len(certificates)) = certificates
            /\ r.certs[r.cert].status = "issued"
            /\ r.certs[r.cert].payment = t
            /\ r.certs[r.cert].certificate_id \in _make_certificate_id
            /\ r.logs = Append(delivery_logs,
                   [certificate |-> r.cert, status |-> "pending",
                    detail |-> [note |-> "a note", trigger |-> "", reason |-> ""]])

\* the certificate ensure_certificate finds for the payment
Existing(t) == First(CertsOf(certificates, t, payments[t].plan_type))

\* the one outcome of ensure_certificate that renames the payment's
\* certificate to cid in place: the same row is returned, no row is added,
\* every other field and every other row is as before, and no row answers
\* to the old ID
RenamesInPlace(t, d, cid) ==
    /\ _ensure_certificate(certificates, t, payments[t], d) =
           {[error |-> "", cert |-> Existing(t),
             certs |-> [certificates EXCEPT ![Existing(t)].certificate_id = cid]]}
    /\ \A r \in _ensure_certificate(certificates, t, payments[t], d) :
           \A k \in DOMAIN r.certs :
               ~IExact(r.certs[k].certificate_id, certificates[Existing(t)].certificate_id)

\* desired_id, trimmed and uppercased, is not the ID of the payment's
\* certificate and no other certificate holds it
FreeToRename(t, d) ==
    /\ HasCertificate(t)
    /\ NormalizeId(d) # certificates[Existing(t)].certificate_id
    /\ ~\E k \in DOMAIN certificates \ {Existing(t)} :
           IExact(certificates[k].certificate_id, NormalizeId(d))

\* C15 as stated: a supplied desired_id that differs from the ID of the
\* payment's certificate and that no other certificate uses renames the
\* certificate in place to the trimmed uppercase desired_id
DesiredIdRenamesInPlace ==
    \A t \in Renderable, d \in DesiredIds \ {NoId} :
        FreeToRename(t, d) => RenamesInPlace(t, d, NormalizeId(d))

\* C15 as amended: the same, for a desired_id that is not empty once
\* trimmed; so " Cert-b " renames to "CERT-B"
NonBlankDesiredIdRenamesInPlace ==
    \A t \in Renderable :
        /\ \A d \in DesiredIds :
               (NormalizeId(d) # NoId /\ FreeToRename(t, d))
                   => RenamesInPlace(t, d, NormalizeId(d))
        /\ FreeToRename(t, <<" ", "C", "e", "r", "t", "-", "b", " ">>)
               => RenamesInPlace(t, <<" ", "C", "e", "r", "t", "-", "b", " ">>,
                                 <<"C", "E", "R", "T", "-", "B">>)

\* C15 witness: render_basic_certificate returned the payment's existing
\* certificate under the requested ID, the payment's QR payload still naming
\* the generated ID the certificate had before
RenamedByRender ==
    /\ last.op = "render" /\ last.error = "" /\ ~last.created
    /\ certificates[last.cert].certificate_id = <<"C", "E", "R", "T", "-", "B">>
    /\ payments[last.txn].metadata.basicCertificate.qrPayload \in _make_certificate_id
    /\ Len(certificates) = 1

\* the answer of verify_certificate names a certificate and its holder
Found(r) == r.error = "" /\ "holder" \in DOMAIN r

\* C16: whenever verify finds a certificate, before or after any change of
\* its status by the admin, verified is true exactly when the status of the
\* certificate is issued at that moment, and the holder is returned either way
VerifiedIffIssued ==
    /\ \A c \in LookupIds :
           LET r == VerificationResult(certificates, payments, c)
           IN  Found(r) =>
                   /\ r.verified = (certificates[r.cert].status = "issued")
                   /\ r.holder.transactionId = certificates[r.cert].payment
    /\ (last.op = "verify" /\ Found(last)) =>
           last.verified = (certificates[last.cert].status = "issued")

\* C16 witness: verify answered verified = false, with the holder, for a
\* certificate the admin had revoked
RevokedVerifiesFalse ==
    /\ last.op = "verify" /\ Found(last)
    /\ ~last.verified
    /\ certificates[last.cert].status = "revoked"
    /\ last.holder.name = payments[certificates[last.cert].payment].name

\* the stored certificates whose ID is id, letter case aside
Matching(id) ==
    {k \in DOMAIN certificates : Upper(certificates[k].certificate_id) = Upper(id)}

\* the answer for an ID no certificate has
NotFoundResult(id) ==
    [op |-> "verify", error |-> "", certificateId |-> id, verified |-> FALSE,
     message |-> "Certificate not found."]

\* C17: every lookup of a non-empty ID that matches no certificate answers
\* verified = false with the message "Certificate not found." and without a
\* holder block
UnknownIdNotVerified ==
    /\ \A c \in LookupIds :
           (Strip(c) # NoId /\ Matching(Strip(c)) = {}) =>
               VerificationResult(certificates, payments, c) = NotFoundResult(Strip(c))
    /\ (last.op = "verify" /\ last.error = "" /\ Matching(last.certificateId) = {}) =>
           /\ last = NotFoundResult(last.certificateId)
           /\ "holder" \notin DOMAIN last

\* C17 witness: verify answered for an ID that no stored certificate has,
\* while certificates are stored
UnknownIdLookedUp ==
    /\ last.op = "verify" /\ last.error = ""
    /\ Matching(last.certificateId) = {}
    /\ certificates # <<>>

\* a is a part of b that is shorter than b, letter case aside
ProperPart(a, b) ==
    /\ Len(a) < Len(b)
    /\ \E i \in 1..(Len(b) - Len(a) + 1) : Upper(SubSeq(b, i, i + Len(a) - 1)) = Upper(a)

\* C18: an ID written in any letter case, with blanks around it, resolves to
\* the stored certificate with that ID, and an ID that is only a part of
\* stored IDs resolves to none; so "cert-a" finds CERT-A, and "CERT-" and
\* "ERT-A" find nothing
CaseInsensitiveExactMatch ==
    /\ \A c \in LookupIds, k \in DOMAIN certificates :
           LET r == VerificationResult(certificates, payments, c)
           IN  /\ Upper(Strip(c)) = certificates[k].certificate_id =>
                      Found(r) /\ r.cert = k
               /\ (ProperPart(Strip(c), certificates[k].certificate_id)
                      /\ Matching(Strip(c)) = {}) => ~Found(r)
    /\ \A k \in DOMAIN certificates :
           certificates[k].certificate_id = <<"C", "E", "R", "T", "-", "A">> =>
               /\ VerificationResult(certificates, payments,
                                     <<"c", "e", "r", "t", "-", "a">>).cert = k
               /\ ~Found(VerificationResult(certificates, payments,
                                            <<"C", "E", "R", "T", "-">>))
               /\ ~Found(VerificationResult(certificates, payments,
                                            <<"E", "R", "T", "-", "A">>))

\* C18 witness: verify found the certificate CERT-1 although the request
\* wrote its ID in another case and with blanks around it; the response
\* carries the stored ID
FoundInOtherCase ==
    /\ last.op = "verify" /\ Found(last)
    /\ last.certificateId = <<"C", "E", "R", "T", "-", "1">>
    /\ certificates[last.cert].status = "pending"

\* the response to a submission that was graded
Graded == last.op = "submit_assessment" /\ last.status = 200

\* the pass threshold in force, in hundredths of a percent: the one of the
\* assessment whose questions are asked, or 40 percent with the fallback bank
ThresholdInForce ==
    IF assessment.exists /\ assessment.questions # <<>>
    THEN assessment.pass_threshold ELSE 4000

\* n / d in hundredths of a percent, to the nearest, ties to even
ExactHundredths(n, d) ==
    LET q == (10000 * n) \div d
        r == (10000 * n) % d
    IN  IF 2 * r > d \/ (2 * r = d /\ q % 2 = 1) THEN q + 1 ELSE q

\* C19: a graded submission reports total as the size of the question bank,
\* percentage as 100 * correct / total (to the two places the response
\* carries), and passed exactly when that percentage is at or above the
\* threshold, equality passing; with a bank of 5 and a threshold of 40
\* percent, 2 right answers give 40 percent and pass
GradedByExactPercentage ==
    Graded =>
        /\ last.total = Len(QuestionMap(assessment))
        /\ last.percentage = ExactHundredths(last.correct, last.total)
        /\ last.passed <=>
               (10000 * last.correct >= ThresholdInForce * last.total)
        /\ (last.total = 5 /\ last.correct = 2 /\ ThresholdInForce = 4000) =>
               (last.percentage = 4000 /\ last.passed)

\* C20: a graded submission whose correct count equals the total reports a
\* percentage of 100 and passes, whatever threshold up to 100 percent is in
\* force
AllCorrectPasses ==
    (Graded /\ last.correct = last.total /\ ThresholdInForce <= 10000) =>
        (last.percentage = 10000 /\ last.passed)

\* C20 witness: all 40 questions of an assessment whose threshold is 100
\* percent were answered right, and the submission passed
AllCorrectAtFullThreshold ==
    /\ Graded
    /\ last.correct = 40 /\ last.total = 40
    /\ assessment.exists /\ assessment.pass_threshold = 10000
    /\ last.passed

\* what a submission of these items to the assessment is answered, no
\* question being deleted meanwhile
ResponseTo(items) ==
    SubmissionResult(assessment, [email |-> "a@x", responses |-> ListOf(items)],
                     FALSE).response

\* two answers that agree on correct, total, percentage and passed
SameGrade(r1, r2) ==
    /\ r1.status = 200 /\ r2.status = 200
    /\ r1.correct = r2.correct /\ r1.total = r2.total
    /\ r1.percentage = r2.percentage /\ r1.passed = r2.passed

\* responses whose id no bank holds: numbers, and an array
UnknownIdRuns == {<<UnknownItem>>, <<UnknownItem, UnknownItem>>, <<ArrayIdItem>>}

\* C21: a graded submission is graded the same with any responses of
\* unknown ids added at its end or its front (so also with them removed),
\* and a wrong answer to a question of the bank added to it takes nothing
\* from the correct count of the other responses
UnknownIdsIgnored ==
    \A items \in ResponseLists(QuestionMap(assessment)) :
        ResponseTo(items).status = 200 =>
            /\ \A unknown \in UnknownIdRuns :
                   /\ SameGrade(ResponseTo(items \o unknown), ResponseTo(items))
                   /\ SameGrade(ResponseTo(unknown \o items), ResponseTo(items))
            /\ \A i \in DOMAIN QuestionMap(assessment) :
                   LET wrong == ResponseTo(items \o <<WrongAnswer(i)>>)
                   IN  wrong.status = 200 /\ wrong.correct >= ResponseTo(items).correct

\* the submission just answered was graded against the questions of the
\* assessment itself
GradedOnOwnBank ==
    /\ last'.op = "submit_assessment" /\ last'.status = 200
    /\ assessment.exists /\ assessment.questions # <<>>

\* the submission just answered was graded against the fallback bank
GradedOnFallbackBank ==
    /\ last'.op = "submit_assessment" /\ last'.status = 200
    /\ ~(assessment.exists /\ assessment.questions # <<>>)

\* C22: a submission graded against the questions of an assessment adds
\* exactly one AssessmentAttempt, and a submission graded against the
\* fallback bank adds none, also when an active assessment matches but has
\* no questions
AttemptsOnlyForOwnBank ==
    [][/\ GradedOnOwnBank => Len(attempts') = Len(attempts) + 1
       /\ GradedOnFallbackBank => attempts' = attempts]_vars

\* C23: a submission whose question bank is read empty is answered 503 and
\* stores nothing, and no submission is graded with a total of 0, so the
\* percentage is never computed over an empty bank
EmptyBankIsUnavailable ==
    [][last'.op = "submit_assessment" =>
          /\ (/\ assessment.exists
              /\ assessment.questions # <<>>
              /\ assessment'.questions = <<>>) =>
                 (last'.status = 503 /\ attempts' = attempts)
          /\ last'.status = 200 => last'.total > 0]_vars

\* C23 witness: the questions of the assessment were deleted while a
\* submission was being handled, and the submission was answered 503
EmptyBankAnswered503 ==
    /\ last.op = "submit_assessment" /\ last.status = 503
    /\ assessment.exists /\ assessment.questions = <<>>
    /\ attempts = <<>>

\* the values of "responses" that are no list of answers
InvalidResponses == {Missing, NotAList, ListOf(<<>>)}

\* C24: a submission whose responses are missing, not a list or an empty
\* list is answered 400 with the message that a responses list is required;
\* the answer carries no grade, and the request creates no AssessmentAttempt
\* and leaves those on record as they were
InvalidResponsesRejected ==
    /\ [](\A responses \in InvalidResponses, deleted \in BOOLEAN :
             LET result == SubmissionResult(assessment,
                               [email |-> "a@x", responses |-> responses], deleted)
             IN  /\ result.response.status = 400
                 /\ result.response.error = "Responses list is required."
                 /\ "correct" \notin DOMAIN result.response
                 /\ result.created = <<>>
                 /\ result.assessment = assessment)
    /\ [][(last'.op = "submit_assessment" /\ last'.status = 400) =>
              attempts' = attempts]_vars

\* C24 witness: a submission to an assessment with 5 questions was answered
\* 400 and no attempt is on record
RejectedWithoutAttempt ==
    /\ last.op = "submit_assessment" /\ last.status = 400
    /\ assessment.exists /\ Len(assessment.questions) = 5
    /\ attempts = <<>>

\* C27: every graded submission has 0 <= correct <= total and so a
\* percentage from 0 to 100, in the response and in the attempt stored: a
\* question answered right several times in one list counts once
CorrectWithinTotal ==
    /\ Graded =>
           /\ 0 <= last.correct /\ last.correct <= last.total
           /\ 0 <= last.percentage /\ last.percentage <= 10000
    /\ \A i \in DOMAIN attempts :
           /\ 0 <= attempts[i].correct_count
           /\ attempts[i].correct_count <= attempts[i].total_questions
           /\ attempts[i].score_percent <= 10000

\* C25: a render whose awardDate override is not a YYYY-MM-DD date is
\* answered with a validation error, never with the ValueError of strptime
\* leaving the handler (a 500), and leaves the payment and every certificate
\* as they were
MalformedAwardDateRejected ==
    [][last'.op = "render" =>
          /\ last'.error # "ValueError"
          /\ last'.error = "ValidationError" => UNCHANGED <<payments, certificates>>]_vars

\* C26: _fetch_phonepe_token returns the cached token without contacting the
\* gateway exactly when a token is cached whose expires_at is more than 30
\* seconds after the current time; otherwise it contacts the gateway, the
\* cache changes only to the token the call returns, and a call that
\* returns no token leaves the cache as it was
TokenCachedUntil30sBeforeExpiry ==
    [][(last'.op = "fetch_token" /\ now' = now) =>
          LET cached == /\ PHONEPE_TOKEN_CACHE.token # ""
                        /\ PHONEPE_TOKEN_CACHE.expires_at > now + 30
          IN  /\ last'.contacted <=> ~cached
              /\ cached => /\ last'.token = PHONEPE_TOKEN_CACHE.token
                            /\ PHONEPE_TOKEN_CACHE' = PHONEPE_TOKEN_CACHE
              /\ PHONEPE_TOKEN_CACHE' # PHONEPE_TOKEN_CACHE =>
                     /\ last'.token # ""
                     /\ PHONEPE_TOKEN_CACHE'.token = last'.token
              /\ last'.token = "" => PHONEPE_TOKEN_CACHE' = PHONEPE_TOKEN_CACHE]_vars

\* C26 witness: a second after it was fetched with an expiry 32 seconds
\* ahead, the token was returned from the cache, the gateway not contacted
TokenServedFromCache ==
    /\ last.op = "fetch_token" /\ ~last.contacted
    /\ last.token = "T1"
    /\ now = 1 /\ PHONEPE_TOKEN_CACHE.expires_at = 32

\* the sent and failed logs the delivery tasks appended for certificate c
DeliveriesLogged(c) == TimerLogs(c, "sent") \cup TimerLogs(c, "failed")

CertificateOfPurchase ==
    IF payments["TXN-1"].exists
    THEN First(CertsOf(certificates, "TXN-1", payments["TXN-1"].plan_type))
    ELSE 0

\* C29: once the certificate of a payment is revoked, an issue_certificate
\* or render_basic_certificate request for that payment creates no
\* certificate and leaves the status revoked, returns that certificate when
\* it succeeds, and the ID the certificate had and the ID it has both verify
\* as false afterwards; only a change by the admin ends the revocation
RevocationNotUndone ==
    [][LET k == CertificateOfPurchase
       IN  (k # 0 /\ certificates[k].status = "revoked") =>
              /\ (last'.op # "admin_patch") =>
                     (/\ k \in DOMAIN certificates'
                      /\ certificates'[k].status = "revoked")
              /\ (last'.op \in {"issue", "render"} /\ last'.txn = "TXN-1") =>
                     (/\ Len(certificates') = Len(certificates)
                      /\ (last'.error = "" => (last'.cert = k /\ ~last'.created))
                      /\ ~VerificationResult(certificates', payments',
                                             certificates[k].certificate_id).verified
                      /\ ~VerificationResult(certificates', payments',
                                             certificates'[k].certificate_id).verified)]_vars

\* C29 witness: the certificate was created by a render, revoked by the
\* admin under the ID it had, then renamed by a render, and the one
\* issue_certificate request, the last to be made, returned it still revoked
RevokedCertificateReturned ==
    /\ Len(certificates) = 1
    /\ certificates[1].status = "revoked"
    /\ certificates[1].certificate_id = <<"C", "E", "R", "T", "-", "B">>
    /\ Len(timers) = 1
    /\ last.op = "issue" /\ last.error = "" /\ last.cert = 1 /\ ~last.created

\* a render request for the first purchase that asks for the ID CERT-A and
\* sends a student name, a course title, an award date and a QR payload
ConflictingOverrides ==
    [certificateId |-> <<"c", "e", "r", "t", "-", "a">>, studentName |-> "Zed",
     courseTitle |-> "Data Science", awardDate |-> "2025-03-09",
     qrPayload |-> <<"q", "r">>]

\* C30: a render_basic_certificate request answered with the certificate-ID
\* conflict leaves every payment (name and metadata included) and every
\* certificate as they were: no override is stored, no ID changes and no
\* certificate is created
ConflictPersistsNothing ==
    [][(last'.op = "render" /\ last'.error = "ConflictError") =>
           /\ payments' = payments
           /\ certificates' = certificates]_vars

\* C30 witness: the render of the first purchase was refused because the
\* certificate of the other purchase holds CERT-A; the payment has the name
\* and the metadata of an earlier render, its certificate has its own ID,
\* and the request with all four overrides is refused in this state
ConflictAfterOverrides ==
    /\ last.op = "render" /\ last.error = "ConflictError" /\ last.txn = "TXN-1"
    /\ Len(certificates) = 2
    /\ \E k \in DOMAIN certificates :
           /\ certificates[k].payment = "TXN-2"
           /\ certificates[k].certificate_id = <<"C", "E", "R", "T", "-", "A">>
    /\ \E k \in DOMAIN certificates :
           /\ certificates[k].payment = "TXN-1"
           /\ certificates[k].certificate_id = <<"C", "E", "R", "T", "-", "1">>
    /\ payments["TXN-1"].name = "Asha"
    /\ payments["TXN-1"].metadata.basicCertificate.courseTitle # "Data Science"
    /\ payments["TXN-1"].metadata.basicCertificate.awardDate # "2025-03-09"
    /\ payments["TXN-1"].metadata.basicCertificate.qrPayload # <<"q", "r">>
    /\ ENABLED (/\ render_basic_certificate("TXN-1", ConflictingOverrides)
                /\ last'.error = "ConflictError"
                /\ UNCHANGED <<requests, grader, gateway>>)

====
